---- MODULE Spec2Model ----
(***************************************************************************)
(* Model of docs/extractor.py: the support-matrix extractor of Merlin.     *)
(*                                                                         *)
(* A Python str is a sequence of chunks.  A chunk is a piece of text that  *)
(* holds no whitespace and no double quote, or it is one of the three      *)
(* distinguished chunks SP (a blank), NL (a line feed) and DQ (a double    *)
(* quote).  The text "Version:" is always one chunk.  Dictionary keys that *)
(* the code writes as literals (Record keys, snippet keys, image           *)
(* attributes) are plain strings; container names and releases, which the  *)
(* code builds by concatenation, are chunk sequences.                      *)
(***************************************************************************)
EXTENDS Integers, Sequences, FiniteSets, TLC

(***************************************************************************)
(* Python values                                                           *)
(***************************************************************************)
SP == " "
NL == "\n"
DQ == "\""

\* The None object (JSON null), kept apart from every str.
None == <<"<None>">>

\* A key parameter left at its default, key=None.
NoKey == "<None>"

\* An empty dict.
EmptyMap == [x \in {} |-> x]

\* d[k] = v on a dict.
Put(d, k, v) == [x \in DOMAIN d \cup {k} |-> IF x = k THEN v ELSE d[x]]

\* SupportMatrixExtractor.ERROR
ERROR == <<"Not applicable">>

\* SupportMatrixExtractor.standard_snippets
standard_snippets == <<"dgx_system", "nvidia_driver", "gpu_model">>

IsWhite(c) == c \in {SP, NL}

\* str.isspace(): every character is whitespace and there is at least one.
isspace(s) == Len(s) > 0 /\ \A i \in 1..Len(s) : IsWhite(s[i])

\* str.replace('"', "")
unquote(s) == SelectSeq(s, LAMBDA c : c # DQ)

RECURSIVE lstrip(_)
lstrip(s) == IF s # <<>> /\ IsWhite(Head(s)) THEN lstrip(Tail(s)) ELSE s

RECURSIVE rstrip(_)
rstrip(s) ==
    IF s # <<>> /\ IsWhite(s[Len(s)]) THEN rstrip(SubSeq(s, 1, Len(s) - 1)) ELSE s

\* str.strip()
strip(s) == rstrip(lstrip(s))

\* str.split(sep) for a one-character separator: the pieces between the
\* separators, empty pieces kept.
RECURSIVE SplitOn(_, _, _)
SplitOn(s, sep, cur) ==
    IF s = <<>> THEN <<cur>>
    ELSE IF Head(s) = sep THEN <<cur>> \o SplitOn(Tail(s), sep, <<>>)
    ELSE SplitOn(Tail(s), sep, Append(cur, Head(s)))

splitlines(s) == SplitOn(s, NL, <<>>)

\* str.split(): the maximal runs of non-whitespace.
RECURSIVE SplitWhite(_, _)
SplitWhite(s, cur) ==
    IF s = <<>> THEN (IF cur = <<>> THEN <<>> ELSE <<cur>>)
    ELSE IF IsWhite(Head(s))
         THEN (IF cur = <<>> THEN <<>> ELSE <<cur>>) \o SplitWhite(Tail(s), <<>>)
         ELSE SplitWhite(Tail(s), Append(cur, Head(s)))

split(s) == SplitWhite(s, <<>>)

\* sep.join(list)
RECURSIVE join(_, _)
join(sep, l) ==
    IF l = <<>> THEN <<>>
    ELSE IF Len(l) = 1 THEN l[1]
    ELSE l[1] \o sep \o join(sep, Tail(l))

\* str.startswith("Version:")
StartsWithVersion(line) == line # <<>> /\ Head(line) = "Version:"

Digit(d) == <<"0", "1", "2", "3", "4", "5", "6", "7", "8", "9">>[d + 1]

\* str(n) for a natural number, one chunk per digit.
RECURSIVE IntStr(_)
IntStr(n) == IF n < 10 THEN <<Digit(n)>> ELSE IntStr(n \div 10) \o <<Digit(n % 10)>>

\* round(p / q) to the nearest integer, ties to even (Python's round).
RoundHalfEven(p, q) ==
    LET f == p \div q
        r == p % q
    IN  IF 2 * r > q THEN f + 1
        ELSE IF 2 * r < q THEN f
        ELSE IF f % 2 = 0 THEN f ELSE f + 1

GiB == 1073741824

\* "{} GB".format(round(size / 1024 ** 3, 2)): the float is printed with its
\* shortest representation, so 1.0, 0.5 and 0.02 keep one, one and two
\* decimals.  The sizes of ImageSizes are far from a rounding tie, where the
\* float division and the exact quotient agree.
SizeGB(size) ==
    LET h == 100 * (size \div GiB) + RoundHalfEven(100 * (size % GiB), GiB)
        i == h \div 100
        f == h % 100
        frac == IF f % 10 = 0 THEN <<Digit(f \div 10)>>
                ELSE <<Digit(f \div 10), Digit(f % 10)>>
    IN  IntStr(i) \o <<".">> \o frac \o <<" GB">>

(***************************************************************************)
(* Attribute extractors.  Each takes the Record (contdata), what the       *)
(* container answers (an exec_run result [raises, err, out], or the image  *)
(* attributes), and the call's arguments; each yields [raised, contdata]:  *)
(* whether an exception left the call, and the Record as the call left it. *)
(***************************************************************************)
Returned(c) == [raised |-> FALSE, contdata |-> c]
Raised(c) == [raised |-> TRUE, contdata |-> c]

get_from_envfile(contdata, res, path, lookup, key0) ==
    LET key == IF key0 = NoKey THEN lookup ELSE key0
        c1 == Put(contdata, key, ERROR)
        result == res.out
    IN  IF res.raises THEN Raised(c1)
        ELSE IF res.err # 1 /\ ~isspace(result)
             THEN Returned(Put(c1, key, strip(unquote(result))))
             ELSE Returned(c1)

get_from_env(contdata, res, lookup, key0) ==
    LET key == IF key0 = NoKey THEN lookup ELSE key0
        c1 == Put(contdata, key, ERROR)
        result == res.out
    IN  IF res.raises THEN Raised(c1)
        ELSE IF res.err # 1 /\ ~isspace(result)
             THEN Returned(Put(c1, key, strip(unquote(result))))
             ELSE Returned(c1)

get_from_pip_no_default(contdata, res, lookup, key0) ==
    LET key == IF key0 = NoKey THEN lookup ELSE key0
        lines == SelectSeq(splitlines(res.out), StartsWithVersion)
        versions == [i \in 1..Len(lines) |-> split(lines[i])[Len(split(lines[i]))]]
    IN  IF res.raises THEN Raised(contdata)
        ELSE IF res.err # 0 THEN Returned(contdata)
        ELSE IF Len(versions) = 1
             THEN Returned(Put(contdata, key, strip(versions[1])))
             ELSE Returned(contdata)

get_from_pip(contdata, res, lookup, key0) ==
    LET key == IF key0 = NoKey THEN lookup ELSE key0
        c1 == Put(contdata, key, ERROR)
        lines == SelectSeq(splitlines(res.out), StartsWithVersion)
        versions == [i \in 1..Len(lines) |-> split(lines[i])[Len(split(lines[i]))]]
    IN  IF res.raises THEN Raised(c1)
        ELSE IF res.err # 0 THEN Returned(c1)
        ELSE IF Len(versions) = 1
             THEN Returned(Put(c1, key, strip(versions[1])))
             ELSE Returned(c1)

\* attrs is the image's attribute dict; attrs["Size"] is a number of bytes.
get_from_image(contdata, attrs, lookup, key0) ==
    LET key == IF key0 = NoKey THEN lookup ELSE key0
        c1 == Put(contdata, key, ERROR)
        c2 == IF lookup \in DOMAIN attrs THEN Put(c1, key, attrs[lookup]) ELSE c1
    IN  IF lookup = "Size"
        THEN IF lookup \in DOMAIN attrs
             THEN Returned(Put(c2, key, SizeGB(attrs[lookup])))
             ELSE Raised(c2)
        ELSE Returned(c2)

get_from_cmd(contdata, res, cmd, key) ==
    LET c1 == Put(contdata, key, ERROR)
    IN  IF res.raises THEN Raised(c1)
        ELSE IF res.err # 1
             THEN IF key = "sm"
                  THEN Returned(Put(c1, key, join(<<",", SP>>, split(res.out))))
                  ELSE Returned(Put(c1, key, strip(res.out)))
             ELSE Returned(c1)

insert_snippet(contdata, key, snip) == Put(contdata, key, snip)

(***************************************************************************)
(* The calls of main, in order (lines 266-303).                            *)
(***************************************************************************)
Image(lookup, key) == [fn |-> "image", arg |-> "", lookup |-> lookup, key |-> key]
EnvFile(path, lookup, key) == [fn |-> "envfile", arg |-> path, lookup |-> lookup, key |-> key]
Env(lookup, key) == [fn |-> "env", arg |-> "", lookup |-> lookup, key |-> key]
Pip(lookup, key) == [fn |-> "pip", arg |-> "", lookup |-> lookup, key |-> key]
Cmd(cmd, key) == [fn |-> "cmd", arg |-> cmd, lookup |-> "", key |-> key]

Calls ==
    << Image("Size", "size"),
       EnvFile("/etc/os-release", "PRETTY_NAME", "os"),
       Env("CUDA_VERSION", "cuda"),
       Pip("rmm", NoKey),
       Pip("cudf", NoKey),
       Env("CUDNN_VERSION", "cudnn"),
       Pip("nvtabular", NoKey),
       Pip("transformers4rec", NoKey),
       Pip("merlin.core", NoKey),
       Pip("merlin.systems", NoKey),
       Pip("merlin.models", NoKey),
       Pip("hugectr2onnx", NoKey),
       Pip("hugectr", NoKey),
       Pip("sparse_operation_kit", NoKey),
       Pip("tensorflow", "tf"),
       Pip("torch", "pytorch"),
       Env("CUBLAS_VERSION", "cublas"),
       Env("CUFFT_VERSION", "cufft"),
       Env("CURAND_VERSION", "curand"),
       Env("CUSOLVER_VERSION", "cusolver"),
       Env("CUSPARSE_VERSION", "cusparse"),
       Env("CUTENSOR_VERSION", "cutensor"),
       Env("NVIDIA_TENSORFLOW_VERSION", "nvidia_tensorflow"),
       Env("NVIDIA_PYTORCH_VERSION", "nvidia_pytorch"),
       Env("OPENMPI_VERSION", "openmpi"),
       Env("TRT_VERSION", "tensorrt"),
       Env("TRTOSS_VERSION", "base_container"),
       Cmd("if [ ! -f libhuge_ctr_shared.so ]; then exit 1; fi; cuobjdump | grep arch | sed", "sm"),
       Cmd("cat /opt/tritonserver/TRITON_VERSION", "triton"),
       Cmd("python -c 'import sys;print(sys.version_info[0]);'", "python_major") >>

NCalls == Len(Calls)

\* The key a call stores under.
KeyOf(call) == IF call.key = NoKey THEN call.lookup ELSE call.key

\* One call of the list: what the container answers is world.attrs for an
\* image lookup and world.exec[n] for the n-th call's command.
RunCall(contdata, n, world) ==
    LET call == Calls[n]
        res == world.exec[n]
    IN  CASE call.fn = "image" -> get_from_image(contdata, world.attrs, call.lookup, call.key)
          [] call.fn = "envfile" -> get_from_envfile(contdata, res, call.arg, call.lookup, call.key)
          [] call.fn = "env" -> get_from_env(contdata, res, call.lookup, call.key)
          [] call.fn = "pip" -> get_from_pip(contdata, res, call.lookup, call.key)
          [] call.fn = "cmd" -> get_from_cmd(contdata, res, call.arg, call.key)

(***************************************************************************)
(* main, lines 218-226 and 262-264, 305-324                                *)
(***************************************************************************)
ngc_base == <<"nvcr.io/nvidia/merlin/">>

containers ==
    << <<"merlin-training">>,
       <<"merlin-tensorflow-training">>,
       <<"merlin-pytorch-training">>,
       <<"merlin-inference">>,
       <<"merlin-tensorflow-inference">>,
       <<"merlin-pytorch-inference">> >>

\* for k in xtr.standard_snippets: insert_snippet(k, sniptext[k]);
\* insert_snippet("release", args.version)
RECURSIVE InsertStandard(_, _, _)
InsertStandard(contdata, sniptext, n) ==
    IF n > Len(standard_snippets) THEN contdata
    ELSE InsertStandard(insert_snippet(contdata, standard_snippets[n],
                                       sniptext[standard_snippets[n]]),
                        sniptext, n + 1)

InsertSnippets(contdata, sniptext, args_version) ==
    insert_snippet(InsertStandard(contdata, sniptext, 1), "release", args_version)

\* The base-container rule with the tensorflow case reading the pip version.
BaseContainer_tf(contdata, cont) ==
    IF cont = <<"merlin-training">>
    THEN insert_snippet(contdata, "base_container", <<"Not applicable">>)
    ELSE IF cont = <<"merlin-tensorflow-training">>
    THEN insert_snippet(contdata, "base_container",
             <<"nvcr.io/nvidia/tensorflow:">> \o contdata["tf"]
                 \o <<"-py">> \o contdata["python_major"])
    ELSE IF cont = <<"merlin-pytorch-training">>
    THEN insert_snippet(contdata, "base_container",
             <<"nvcr.io/nvidia/pytorch:">> \o contdata["nvidia_pytorch"]
                 \o <<"-py">> \o contdata["python_major"])
    ELSE insert_snippet(contdata, "base_container",
             <<"Triton version ">> \o contdata["base_container"])

\* "Some hacks for the base container image"
BaseContainer(contdata, cont) ==
    IF cont = <<"merlin-training">>
    THEN insert_snippet(contdata, "base_container", <<"Not applicable">>)
    ELSE IF cont = <<"merlin-tensorflow-training">>
    THEN insert_snippet(contdata, "base_container",
             <<"nvcr.io/nvidia/tensorflow:">> \o contdata["nvidia_tensorflow"]
                 \o <<"-py">> \o contdata["python_major"])
    ELSE IF cont = <<"merlin-pytorch-training">>
    THEN insert_snippet(contdata, "base_container",
             <<"nvcr.io/nvidia/pytorch:">> \o contdata["nvidia_pytorch"]
                 \o <<"-py">> \o contdata["python_major"])
    ELSE insert_snippet(contdata, "base_container",
             <<"Triton version ">> \o contdata["base_container"])

\* The keys of a Record that a completed pass has written.
AllKeys ==
    {standard_snippets[i] : i \in 1..Len(standard_snippets)}
        \cup {"release", "base_container"}
        \cup {KeyOf(Calls[n]) : n \in 1..NCalls}

\* date.today().strftime("%y.%m")
get_yymm(today) ==
    <<Digit((today.year % 100) \div 10), Digit(today.year % 10), ".",
      Digit(today.month \div 10), Digit(today.month % 10)>>

(***************************************************************************)
(* Data store: container name -> release -> Record.  The file holds the    *)
(* JSON text of such a dict; json.dump and json.load are inverse on dicts  *)
(* with str keys and str or None values, so the file is kept as the dict.  *)
(***************************************************************************)
Has(store, name, release) == name \in DOMAIN store /\ release \in DOMAIN store[name]

PutPath(store, name, release, rec) ==
    Put(store, name, Put(IF name \in DOMAIN store THEN store[name] ELSE EmptyMap,
                         release, rec))

\* mergedeep.merge, default strategy: nested dicts are merged key by key,
\* any other value of the source replaces the destination's.
MergeRecord(dst, src) ==
    [k \in DOMAIN dst \cup DOMAIN src |-> IF k \in DOMAIN src THEN src[k] ELSE dst[k]]

MergeReleases(dst, src) ==
    [r \in DOMAIN dst \cup DOMAIN src |->
        IF r \in DOMAIN dst /\ r \in DOMAIN src THEN MergeRecord(dst[r], src[r])
        ELSE IF r \in DOMAIN src THEN src[r] ELSE dst[r]]

MergeStore(dst, src) ==
    [n \in DOMAIN dst \cup DOMAIN src |->
        IF n \in DOMAIN dst /\ n \in DOMAIN src THEN MergeReleases(dst[n], src[n])
        ELSE IF n \in DOMAIN src THEN src[n] ELSE dst[n]]

merge(dst, src1, src2) == MergeStore(MergeStore(dst, src1), src2)

\* A SupportMatrixExtractor.  data is self.data; alias says that
\* self.data[container_name][release] is the very dict self.contdata, so
\* that a later write to contdata shows in data.
NoXtr ==
    [container_name |-> <<>>, release |-> <<>>, contdata |-> EmptyMap,
     data |-> EmptyMap, alias |-> FALSE]

\* SupportMatrixExtractor.__init__
NewExtractor(name, release) ==
    [container_name |-> name, release |-> release, contdata |-> EmptyMap,
     data |-> PutPath(EmptyMap, name, release, EmptyMap), alias |-> TRUE]

\* self.data as a reader sees it.
DataOf(xtr) ==
    IF xtr.alias THEN PutPath(xtr.data, xtr.container_name, xtr.release, xtr.contdata)
    ELSE xtr.data

\* from_json without line 208: the merged copy stays at the path.
from_json_keep_merged(xtr, exists, file) ==
    IF ~exists THEN xtr
    ELSE LET d1 == IF xtr.container_name \notin DOMAIN file
                   THEN Put(file, xtr.container_name, EmptyMap) ELSE file
             d2 == IF xtr.release \notin DOMAIN d1[xtr.container_name]
                   THEN PutPath(d1, xtr.container_name, xtr.release, EmptyMap) ELSE d1
         IN  [xtr EXCEPT !.data = merge(EmptyMap, d2, DataOf(xtr)), !.alias = FALSE]

\* from_json without the merge: what the file held is dropped.
from_json_no_merge(xtr, exists, file) == xtr

from_json(xtr, exists, file) ==
    IF ~exists THEN xtr
    ELSE LET d1 == IF xtr.container_name \notin DOMAIN file
                   THEN Put(file, xtr.container_name, EmptyMap) ELSE file
             d2 == IF xtr.release \notin DOMAIN d1[xtr.container_name]
                   THEN PutPath(d1, xtr.container_name, xtr.release, EmptyMap) ELSE d1
         IN  [xtr EXCEPT !.data = merge(EmptyMap, d2, DataOf(xtr)), !.alias = TRUE]

\* to_json_file: the new contents of the file.
to_json_file(xtr) == DataOf(xtr)

(***************************************************************************)
(* What the program runs against.                                          *)
(***************************************************************************)
Ok(out) == [raises |-> FALSE, err |-> 0, out |-> out]
Exit(err, out) == [raises |-> FALSE, err |-> err, out |-> out]
ApiError == [raises |-> TRUE, err |-> 0, out |-> <<>>]

\* What a healthy image answers to the n-th call.
NominalExec(n) ==
    LET call == Calls[n]
    IN  CASE call.fn = "envfile" -> Ok(<<DQ, "Ubuntu", SP, "20.04", DQ, NL>>)
          [] call.fn = "env" -> Ok(<<"11.6", NL>>)
          [] call.fn = "pip" ->
                Ok(<<"Name:", SP, call.lookup, NL, "Version:", SP, "1.2", NL,
                     "Summary:", SP, "text", NL>>)
          [] call.fn = "cmd" /\ call.key = "sm" -> Ok(<<"70", NL, "75", NL, "80", NL>>)
          [] call.fn = "cmd" /\ call.key = "python_major" -> Ok(<<"3", NL>>)
          [] OTHER -> Ok(<<"2.20", NL>>)

NominalSize == GiB + 16106127

NominalWorld ==
    [daemon |-> TRUE, images |-> 1..Len(containers),
     attrs |-> [a \in {"Size", "Os"} |-> IF a = "Size" THEN NominalSize ELSE <<"linux">>],
     exec |-> [n \in 1..NCalls |-> NominalExec(n)]]

\* The n-th call answered by res instead.
Fault(n, res) == [NominalWorld EXCEPT !.exec[n] = res]

CallOf(key) == CHOOSE n \in 1..NCalls : KeyOf(Calls[n]) = key

\* The worlds of the orchestrator's specification: a healthy registry, one
\* with some images missing, one with none, a daemon that cannot be
\* reached, an image without a Size, and single commands that fail.
Worlds ==
    { NominalWorld,
      [NominalWorld EXCEPT !.images = {2, 4}],
      [NominalWorld EXCEPT !.images = {}],
      [NominalWorld EXCEPT !.daemon = FALSE],
      [NominalWorld EXCEPT !.attrs = [a \in {"Os"} |-> <<"linux">>]],
      Fault(CallOf("rmm"), Exit(1, <<"WARNING:", SP, "Package(s)", SP, "not", SP, "found", NL>>)),
      Fault(CallOf("nvidia_tensorflow"), Ok(<<NL>>)),
      Fault(CallOf("python_major"), Exit(127, <<"bash:", SP, "python:", SP, "command", SP, "not", SP, "found", NL>>)),
      Fault(CallOf("tf"), ApiError) }

Rel2202 == <<"2", "2", ".", "0", "2">>
Rel2203 == <<"2", "2", ".", "0", "3">>
Rel2112 == <<"2", "1", ".", "1", "2">>

\* What -v/--version may hold: absent, empty, or a release.
ArgVersions == {None, <<>>, Rel2202, Rel2203}

\* The days the program may be run on.
Dates == {[year |-> 2022, month |-> 2], [year |-> 2022, month |-> 3]}

GoodSnippets ==
    [k \in {"dgx_system", "nvidia_driver", "gpu_model", "extra"} |-> <<"text-", k>>]

\* What the snippets file may hold: every mandatory key, one missing, one
\* with an empty text.
SnippetSources ==
    { GoodSnippets,
      [k \in {"dgx_system", "nvidia_driver"} |-> <<"text-", k>>],
      [GoodSnippets EXCEPT !["nvidia_driver"] = <<>>] }

\* A data file written by earlier runs, also of an older version of the
\* program: Records with other keys, another container, another release.
LegacyStore ==
    LET old == [k \in {"cuda", "legacy"} |-> <<"old-", k>>]
    IN  PutPath(PutPath(PutPath(EmptyMap,
            ngc_base \o containers[1], Rel2203, old),
            ngc_base \o containers[1], Rel2112, old),
            <<"other/image">>, Rel2203, old)

\* [exists, store]: the data file before the first run.
PriorFiles ==
    { [exists |-> FALSE, store |-> EmptyMap],
      [exists |-> TRUE, store |-> EmptyMap],
      [exists |-> TRUE, store |-> LegacyStore] }

\* The number of times the program is run.
MaxRuns == 2

(***************************************************************************)
(* The orchestrator: main, one action per step.                            *)
(***************************************************************************)
VARIABLES
    world,        \* the daemon, the registry and the images' contents
    file,         \* [exists, store]: the data file
    snippetsfile, \* what the snippets file holds
    runs,         \* how many times the program was started
    pc,           \* where main is
    exc,          \* the exception that ended main, "none" if none did
    args_version, \* args.version
    version,      \* main's version
    sniptext,     \* main's sniptext
    i,            \* the index of cont in containers
    container,    \* what managed_container yielded
    live,         \* the containers started and neither stopped nor removed
    xtr,          \* the SupportMatrixExtractor
    n,            \* the index of the next call of Calls
    writes,       \* to_json_file calls in the pass over the current image
    processed,    \* the (name, release) pairs saved so far
    pair          \* two passes side by side (PairSpec)

vars ==
    <<world, file, snippetsfile, runs, pc, exc, args_version, version, sniptext, i,
      container, live, xtr, n, writes, processed, pair>>

NoContainer == [kind |-> "none", id |-> <<0, 0>>]
NoPair == [pc |-> "off"]

cont == containers[i]

\* bool(x) of a str or None
Truthy(v) == v # None /\ v # <<>>

\* for k in standard_snippets: assert sniptext[k], checked on the first key only
SnippetCheck_first(text) ==
    IF standard_snippets[1] \notin DOMAIN text THEN "KeyError"
    ELSE IF ~Truthy(text[standard_snippets[1]]) THEN "AssertionError"
    ELSE "none"

\* for k in standard_snippets: assert sniptext[k]
\* The exception the loop ends with, "none" when every key passes.
RECURSIVE SnippetCheckFrom(_, _)
SnippetCheckFrom(text, k) ==
    IF k > Len(standard_snippets) THEN "none"
    ELSE IF standard_snippets[k] \notin DOMAIN text THEN "KeyError"
    ELSE IF ~Truthy(text[standard_snippets[k]]) THEN "AssertionError"
    ELSE SnippetCheckFrom(text, k + 1)

SnippetCheck(text) == SnippetCheckFrom(text, 1)

Init ==
    /\ world \in Worlds
    /\ file \in PriorFiles
    /\ snippetsfile = GoodSnippets
    /\ runs = 0
    /\ pc = "idle"
    /\ exc = "none"
    /\ args_version = None
    /\ version = None
    /\ sniptext = EmptyMap
    /\ i = 0
    /\ container = NoContainer
    /\ live = {}
    /\ xtr = NoXtr
    /\ n = 0
    /\ writes = 0
    /\ processed = {}
    /\ pair = NoPair

\* The program is started: parse_args and main's lines 232-239.
StartRun ==
    /\ pc \in {"idle", "exited"}
    /\ runs < MaxRuns
    /\ \E av \in ArgVersions, today \in Dates, snips \in SnippetSources :
          /\ args_version' = av
          /\ version' = IF ~Truthy(av) THEN get_yymm(today) ELSE av
          /\ snippetsfile' = snips
    /\ runs' = runs + 1
    /\ pc' = "snippets"
    /\ exc' = "none"
    /\ sniptext' = EmptyMap
    /\ i' = 0
    /\ container' = NoContainer
    /\ xtr' = NoXtr
    /\ n' = 0
    /\ writes' = 0
    /\ UNCHANGED <<world, file, live, processed, pair>>

\* Lines 241-245: the snippets are loaded and the mandatory ones asserted.
LoadSnippets ==
    /\ pc = "snippets"
    /\ sniptext' = snippetsfile
    /\ \/ /\ SnippetCheck(snippetsfile) = "none"
          /\ pc' = "loop"
          /\ i' = 1
          /\ exc' = exc
       \/ /\ SnippetCheck(snippetsfile) # "none"
          /\ pc' = "exited"
          /\ exc' = SnippetCheck(snippetsfile)
          /\ i' = i
    /\ UNCHANGED <<world, file, snippetsfile, runs, args_version, version, container,
                   live, xtr, n, writes, processed, pair>>

\* managed_container up to its yield (lines 63-79), entered by the with of
\* line 251.  docker.from_env() is outside the try; a failure of
\* containers.run is caught and yielded.
Enter ==
    /\ pc = "loop"
    /\ i <= Len(containers)
    /\ \/ /\ ~world.daemon
          /\ pc' = "exited"
          /\ exc' = "DockerException"
          /\ UNCHANGED <<container, live>>
       \/ /\ world.daemon
          /\ i \in world.images
          /\ container' = [kind |-> "container", id |-> <<runs, i>>]
          /\ live' = live \cup {<<runs, i>>}
          /\ pc' = "body"
          /\ exc' = exc
       \/ /\ world.daemon
          /\ i \notin world.images
          /\ \E kind \in {"ImageNotFound", "Exception"} :
                container' = [kind |-> kind, id |-> <<0, 0>>]
          /\ live' = live
          /\ pc' = "body"
          /\ exc' = exc
    /\ writes' = 0
    /\ UNCHANGED <<world, file, snippetsfile, runs, args_version, version, sniptext, i,
                   xtr, n, processed, pair>>

\* Lines 252-254 and the generator's way out after `continue`: it resumes
\* after the yield of the except clause and runs the finally with
\* container = None, so nothing is stopped.  A variant that saves an empty
\* Record for the image that was skipped.
Skip_saves ==
    /\ pc = "body"
    /\ container.kind # "container"
    /\ file' = [exists |-> TRUE,
                store |-> PutPath(file.store, ngc_base \o cont, version, EmptyMap)]
    /\ i' = i + 1
    /\ pc' = "loop"
    /\ UNCHANGED <<world, snippetsfile, runs, exc, args_version, version, sniptext,
                   container, live, xtr, n, writes, processed, pair>>

Skip ==
    /\ pc = "body"
    /\ container.kind # "container"
    /\ i' = i + 1
    /\ pc' = "loop"
    /\ UNCHANGED <<world, file, snippetsfile, runs, exc, args_version, version, sniptext,
                   container, live, xtr, n, writes, processed, pair>>

\* Lines 256-259: the extractor is built for this image.
Construct ==
    /\ pc = "body"
    /\ container.kind = "container"
    /\ xtr' = NewExtractor(ngc_base \o cont, version)
    /\ pc' = "from_json"
    /\ UNCHANGED <<world, file, snippetsfile, runs, exc, args_version, version, sniptext,
                   i, container, live, n, writes, processed, pair>>

\* Line 260
LoadJson ==
    /\ pc = "from_json"
    /\ xtr' = from_json(xtr, file.exists, file.store)
    /\ pc' = "insert"
    /\ UNCHANGED <<world, file, snippetsfile, runs, exc, args_version, version, sniptext,
                   i, container, live, n, writes, processed, pair>>

\* Lines 262-264
Insert ==
    /\ pc = "insert"
    /\ IF \A k \in 1..Len(standard_snippets) : standard_snippets[k] \in DOMAIN sniptext
       THEN /\ xtr' = [xtr EXCEPT !.contdata =
                          InsertSnippets(xtr.contdata, sniptext, args_version)]
            /\ pc' = "extract"
            /\ n' = 1
       ELSE \* sniptext[k] raises KeyError inside the with block
            /\ xtr' = xtr
            /\ pc' = "raised"
            /\ n' = n
    /\ UNCHANGED <<world, file, snippetsfile, runs, exc, args_version, version, sniptext,
                   i, container, live, writes, processed, pair>>

\* Lines 266-303, one call at a time.  A call that raises leaves the body.
Extract ==
    /\ pc = "extract"
    /\ LET r == RunCall(xtr.contdata, n, world)
       IN  /\ xtr' = [xtr EXCEPT !.contdata = r.contdata]
           /\ \/ /\ r.raised
                 /\ pc' = "raised"
                 /\ n' = n
              \/ /\ ~r.raised
                 /\ n < NCalls
                 /\ pc' = "extract"
                 /\ n' = n + 1
              \/ /\ ~r.raised
                 /\ n = NCalls
                 /\ pc' = "derive"
                 /\ n' = n
    /\ UNCHANGED <<world, file, snippetsfile, runs, exc, args_version, version, sniptext,
                   i, container, live, writes, processed, pair>>

\* Lines 305-324
Derive ==
    /\ pc = "derive"
    /\ xtr' = [xtr EXCEPT !.contdata = BaseContainer(xtr.contdata, cont)]
    /\ pc' = "save"
    /\ UNCHANGED <<world, file, snippetsfile, runs, exc, args_version, version, sniptext,
                   i, container, live, n, writes, processed, pair>>

\* Line 326
Save ==
    /\ pc = "save"
    /\ file' = [exists |-> TRUE, store |-> to_json_file(xtr)]
    /\ writes' = writes + 1
    /\ processed' = processed \cup {<<xtr.container_name, xtr.release>>}
    /\ pc' = "release"
    /\ UNCHANGED <<world, snippetsfile, runs, exc, args_version, version, sniptext,
                   i, container, live, xtr, n, pair>>

\* The with block is left at its end: the generator resumes after
\* `yield container` and runs the finally (lines 80-83).
Release ==
    /\ pc = "release"
    /\ live' = live \ {container.id}
    /\ i' = i + 1
    /\ pc' = "loop"
    /\ UNCHANGED <<world, file, snippetsfile, runs, exc, args_version, version, sniptext,
                   container, xtr, n, writes, processed, pair>>

\* The with block is left by an exception: __exit__ throws it into the
\* generator at `yield container`, `except Exception as e` (line 78)
\* catches it and yields again, and contextlib answers a generator that
\* did not stop with RuntimeError, which leaves main.  The generator stays
\* suspended at line 79 with its finally pending: the finally runs when the
\* generator is closed or collected, which a build may do at once (Python
\* 3.12 closes it in __exit__), at interpreter exit, or not at all.
ExitRaised ==
    /\ pc = "raised"
    /\ pc' = "exited"
    /\ exc' = "RuntimeError"
    /\ \/ live' = live \ {container.id}
       \/ live' = live
    /\ UNCHANGED <<world, file, snippetsfile, runs, args_version, version, sniptext,
                   i, container, xtr, n, writes, processed, pair>>

\* The for loop is exhausted: main returns.
Finish ==
    /\ pc = "loop"
    /\ i > Len(containers)
    /\ pc' = "exited"
    /\ UNCHANGED <<world, file, snippetsfile, runs, exc, args_version, version, sniptext,
                   i, container, live, xtr, n, writes, processed, pair>>

Next ==
    \/ StartRun
    \/ LoadSnippets
    \/ Enter
    \/ Skip
    \/ Construct
    \/ LoadJson
    \/ Insert
    \/ Extract
    \/ Derive
    \/ Save
    \/ Release
    \/ ExitRaised
    \/ Finish

Spec == Init /\ [][Next]_vars

(***************************************************************************)
(* Two passes over the same container, side by side: pass a runs against   *)
(* a world where the call `flip` succeeds, pass b against the same world   *)
(* with that one call failing.  Both go through lines 262-326 with the     *)
(* operators above.                                                        *)
(***************************************************************************)
ErrText == <<"bash:", SP, "error", NL>>

\* The ways the command behind a call can fail: a non-zero exit status, a
\* blank output, a pip output with no or with two Version: lines.  An image
\* lookup fails by the attribute being absent, whatever the commands answer.
Failures(call) ==
    CASE call.fn = "pip" ->
            { Exit(1, ErrText), Exit(2, ErrText),
              Ok(<<"Name:", SP, call.lookup, NL>>),
              Ok(<<"Version:", SP, "1.2", NL, "Version:", SP, "1.3", NL>>) }
      [] call.fn = "cmd" -> { Exit(1, ErrText), Exit(2, ErrText), Exit(127, ErrText) }
      [] call.fn = "image" -> { Ok(<<>>) }
      [] OTHER -> { Exit(1, ErrText), Exit(2, ErrText), Ok(<<NL>>), Ok(<<SP, NL>>) }

\* Image sizes in bytes.
ImageSizes == {0, GiB, GiB + 5368709}

\* A world where every command but the j-th fails with status 1.
BareWorld(j) ==
    [NominalWorld EXCEPT !.exec = [m \in 1..NCalls |->
        IF m = j THEN NominalExec(m) ELSE Exit(1, ErrText)]]

\* The worlds of pass a: the call j succeeds in each.
BaseWorlds(j) ==
    {NominalWorld, BareWorld(j)}
        \cup {[NominalWorld EXCEPT !.attrs["Size"] = sz] : sz \in ImageSizes}

\* The world of pass b: that of pass a with the call j failing as f.
Failing(w, j, f) ==
    IF Calls[j].fn = "image"
    THEN [w EXCEPT !.attrs = [a \in DOMAIN w.attrs \ {Calls[j].lookup} |-> w.attrs[a]]]
    ELSE [w EXCEPT !.exec[j] = f]

PairStarts ==
    UNION { { [pc |-> "insert", cont |-> c, flip |-> j, last |-> 0,
               wa |-> w, wb |-> Failing(w, j, f),
               a |-> Returned(EmptyMap), b |-> Returned(EmptyMap)] :
                 c \in 1..Len(containers), f \in Failures(Calls[j]), w \in BaseWorlds(j) } :
            j \in 1..NCalls }

PairInit ==
    /\ world = NominalWorld
    /\ file = [exists |-> FALSE, store |-> EmptyMap]
    /\ snippetsfile = GoodSnippets
    /\ runs = 0
    /\ pc = "idle"
    /\ exc = "none"
    /\ args_version = Rel2203
    /\ version = Rel2203
    /\ sniptext = GoodSnippets
    /\ i = 0
    /\ container = NoContainer
    /\ live = {}
    /\ xtr = NoXtr
    /\ n = 0
    /\ writes = 0
    /\ processed = {}
    /\ pair \in PairStarts

mainvars ==
    <<world, file, snippetsfile, runs, pc, exc, args_version, version, sniptext, i,
      container, live, xtr, n, writes, processed>>

\* A pass that raised does nothing more.
Step(p, r) == IF p.raised THEN p ELSE r

\* Lines 262-264 in both passes.
PairInsert ==
    /\ pair.pc = "insert"
    /\ pair' = [pair EXCEPT
          !.a = Returned(InsertSnippets(pair.a.contdata, sniptext, args_version)),
          !.b = Returned(InsertSnippets(pair.b.contdata, sniptext, args_version)),
          !.pc = "extract"]
    /\ UNCHANGED mainvars

\* The next call of lines 266-303 in both passes.
PairExtract ==
    /\ pair.pc = "extract"
    /\ pair' = [pair EXCEPT
          !.a = Step(pair.a, RunCall(pair.a.contdata, pair.last + 1, pair.wa)),
          !.b = Step(pair.b, RunCall(pair.b.contdata, pair.last + 1, pair.wb)),
          !.last = pair.last + 1,
          !.pc = IF pair.last + 1 = NCalls THEN "derive" ELSE "extract"]
    /\ UNCHANGED mainvars

\* Lines 305-324 in both passes.
PairDerive ==
    /\ pair.pc = "derive"
    /\ pair' = [pair EXCEPT
          !.a = Step(pair.a, Returned(BaseContainer(pair.a.contdata, containers[pair.cont]))),
          !.b = Step(pair.b, Returned(BaseContainer(pair.b.contdata, containers[pair.cont]))),
          !.pc = "save"]
    /\ UNCHANGED mainvars

\* Line 326 in both passes: a pass that did not raise saves its Record.
PairSave ==
    /\ pair.pc = "save"
    /\ pair' = [pair EXCEPT !.pc = "saved"]
    /\ UNCHANGED mainvars

PairNext == PairInsert \/ PairExtract \/ PairDerive \/ PairSave

PairSpec == PairInit /\ [][PairNext]_vars

(***************************************************************************)
(* Properties                                                              *)
(***************************************************************************)
FlipKey == KeyOf(Calls[pair.flip])

\* C1: whenever the command or query behind an extractor call fails (a
\* non-zero exit status, a blank output, no or several Version: lines, the
\* image attribute absent), the call returns without raising and the Record
\* holds the sentinel at the call's storage key.
C1_FailureGivesSentinel ==
    (pair.pc \in {"extract", "derive"} /\ pair.last = pair.flip)
        => (~pair.b.raised /\ pair.b.contdata[FlipKey] = ERROR)

\* C2: when the next image's session is acquired, and when the run has
\* ended, no container that was started is left running or unremoved.
C2_EveryContainerReleased == pc \in {"loop", "exited"} => live = {}

\* C3: an exception raised in the with block is turned into a skip of that
\* image: main goes on with the next container and no exception leaves it.
C3_BodyExceptionIsSkip ==
    [][pc = "raised" => (pc' = "loop" /\ i' = i + 1 /\ exc' = "none")]_vars

\* C4: saving the Record of one (name, release) leaves every other entry of
\* the data file present with its Record unchanged, and every pair that was
\* saved stays in the file, whatever the order of the runs.
C4_OtherEntriesKept ==
    /\ [][pc = "save" =>
            \A nm \in DOMAIN file.store : \A r \in DOMAIN file.store[nm] :
                <<nm, r>> # <<xtr.container_name, xtr.release>>
                    => /\ Has(file'.store, nm, r)
                       /\ file'.store[nm][r] = file.store[nm][r]]_vars
    /\ [](\A q \in processed : Has(file.store, q[1], q[2]))

C4_BothReleasesKept ==
    /\ pc = "exited"
    /\ runs = 2
    /\ <<"other/image">> \notin DOMAIN file.store
    /\ {<<ngc_base \o containers[1], Rel2202>>, <<ngc_base \o containers[1], Rel2203>>}
           \subseteq processed
    /\ Has(file.store, ngc_base \o containers[1], Rel2202)
    /\ Has(file.store, ngc_base \o containers[1], Rel2203)
    /\ file.store[ngc_base \o containers[1]][Rel2202]["release"]
           # file.store[ngc_base \o containers[1]][Rel2203]["release"]

\* C5: when the file already holds a Record at the (name, release) being
\* processed, the Record saved there is the one this pass built in contdata,
\* which was empty when the extractor was constructed: it holds the keys
\* this pass wrote and no other, each with the value this pass gave it.
C5_SavedRecordIsFresh ==
    [][(pc = "save" /\ file.exists /\ Has(file.store, xtr.container_name, xtr.release))
          => /\ file'.store[xtr.container_name][xtr.release] = xtr.contdata
             /\ DOMAIN file'.store[xtr.container_name][xtr.release] = AllKeys]_vars

C5_OldRecordReplaced ==
    /\ pc = "release"
    /\ runs = 1
    /\ xtr.container_name = ngc_base \o containers[1]
    /\ xtr.release = Rel2203
    /\ Has(file.store, <<"other/image">>, Rel2203)
    /\ "legacy" \in DOMAIN LegacyStore[xtr.container_name][xtr.release]
    /\ "legacy" \notin DOMAIN file.store[xtr.container_name][xtr.release]
    /\ file.store[xtr.container_name][xtr.release]["cuda"] = <<"11.6">>

C7_ReleaseFieldIsRelease ==
    \A q \in processed : file.store[q[1]][q[2]]["release"] = q[2]

Feeds(c) ==
    IF containers[c] = <<"merlin-tensorflow-training">>
    THEN {"nvidia_tensorflow", "python_major"}
    ELSE IF containers[c] = <<"merlin-pytorch-training">>
    THEN {"nvidia_pytorch", "python_major"}
    ELSE {}

MandatoryMissing ==
    \E k \in {"dgx_system", "nvidia_driver", "gpu_model"} : k \notin DOMAIN snippetsfile

\* C9: with a mandatory snippet key missing the program ends at the check
\* of lines 244-245 with KeyError: main never reaches the loop, so no
\* container is started, no extractor is built or run and the file is not
\* written.
C9_FailFast ==
    /\ [](MandatoryMissing => pc \in {"snippets", "exited"})
    /\ [][(pc = "snippets" /\ MandatoryMissing)
            => /\ pc' = "exited"
               /\ exc' = "KeyError"
               /\ UNCHANGED <<file, live, xtr, container, processed, writes>>]_vars

C9_AbortedOnMissingKey ==
    /\ pc = "exited"
    /\ exc = "KeyError"
    /\ "gpu_model" \notin DOMAIN snippetsfile
    /\ runs = 1
    /\ live = {}
    /\ xtr = NoXtr
    /\ file \in PriorFiles

\* C10: the file changes only at line 326, after the last call and the
\* derived-field rule, once per pass, and the Record written there holds
\* the whole key set; a pass that is left earlier has not written.
C10_SaveLastAndComplete ==
    /\ [][file' # file => pc = "save"]_vars
    /\ [][pc = "save" =>
            /\ n = NCalls
            /\ writes = 0
            /\ writes' = 1
            /\ pc' = "release"
            /\ DOMAIN file'.store[xtr.container_name][xtr.release] = AllKeys]_vars
    /\ [](pc \in {"body", "from_json", "insert", "extract", "derive", "save", "raised"}
             => writes = 0)
    /\ [](pc = "release" => writes = 1)

C10_SavedWithFailedField ==
    /\ pc = "release"
    /\ writes = 1
    /\ world.exec[CallOf("rmm")].err = 1
    /\ file.store[xtr.container_name][xtr.release]["rmm"] = ERROR
    /\ DOMAIN file.store[xtr.container_name][xtr.release] = AllKeys

====
